---- MODULE Spec2Model ----
(***************************************************************************)
(* Model of the combinatorial download-session controller of scraper.py    *)
(* (class ZillowComprehensiveScraper): option enumeration, the Cartesian   *)
(* planner, the per-combination select / locate / click / poll protocol    *)
(* and the ledger of downloaded files.  The browser and the download       *)
(* directory are the environment: every call into them that can fail is a  *)
(* nondeterministic choice, and the directory changes by its own actions.  *)
(***************************************************************************)
EXTENDS Integers, Sequences, FiniteSets, TLC

\* ---------------------------------------------------------------- bounds
MaxControls == 2    \* controls per generated section (planner inputs)
MaxOpts == 2        \* raw <option> entries per generated control
MaxFiles == 2       \* files simultaneously present in the download directory
MaxRemovals == 1    \* files deleted from the download directory by others
Timeout == 2        \* the timeout argument of wait_for_download, in seconds
MaxOversleep == 1   \* seconds time.sleep(1) may sleep beyond the second asked
MaxLag == 1         \* seconds that may pass between the loop test and glob

\* ------------------------------------------------------ program constants
SleepInterval == 1  \* time.sleep(1) in the polling loop

\* ------------------------------------------------------------- utilities
Range(s) == {s[i] : i \in DOMAIN s}

SeqsUpTo(S, n) == UNION {[1..k -> S] : k \in 0..n}

\* every ordering of a finite set: the order in which a Python list built
\* from a set enumerates it is not fixed by the language
Orderings(S) == {s \in [1..Cardinality(S) -> S] : Range(s) = S}

\* ------------------------------------------------------- option reading
\* str.strip() on the option label; a label is a sequence of characters
RECURSIVE lstrip(_)
lstrip(t) == IF t # <<>> /\ Head(t) = " " THEN lstrip(Tail(t)) ELSE t

RECURSIVE rstrip(_)
rstrip(t) ==
    IF t # <<>> /\ t[Len(t)] = " " THEN rstrip(SubSeq(t, 1, Len(t) - 1)) ELSE t

strip(t) == rstrip(lstrip(t))

\* get_attribute('value') of an <option> without the attribute
NoneValue == "<None>"

\* the filter of get_dropdown_options: value present and not ''
HasValue(option) == option.value # NoneValue /\ option.value # ""

RECURSIVE ReadOptions(_)
ReadOptions(raw) ==
    IF raw = <<>> THEN <<>>
    ELSE LET rest == ReadOptions(Tail(raw))
         IN  IF HasValue(Head(raw))
             THEN <<[value |-> Head(raw).value, text |-> strip(Head(raw).text)]>>
                      \o rest
             ELSE rest

\* raises: some call on the element threw (stale element, ...): except -> []
get_dropdown_options(select_element, raises) ==
    IF raises THEN <<>> ELSE ReadOptions(select_element)

\* ------------------------------------------------------------- planner
\* the comprehension with its loops swapped: for y in pool for x in result
RECURSIVE ExtendEachPoolMajor(_, _)
ExtendEachPoolMajor(result, pool) ==
    IF pool = <<>> THEN <<>>
    ELSE [j \in 1..Len(result) |-> Append(result[j], Head(pool))]
             \o ExtendEachPoolMajor(result, Tail(pool))

\* [x + [y] for x in result for y in pool]
RECURSIVE ExtendEach(_, _)
ExtendEach(result, pool) ==
    IF result = <<>> THEN <<>>
    ELSE [j \in 1..Len(pool) |-> Append(Head(result), pool[j])]
             \o ExtendEach(Tail(result), pool)

\* zip(*pools) in the place of itertools.product(*pools)
ZipPools(pools) ==
    IF pools = <<>> THEN << <<>> >>
    ELSE LET shortest == CHOOSE n \in {Len(pools[i]) : i \in DOMAIN pools} :
                             \A i \in DOMAIN pools : n <= Len(pools[i])
         IN  [n \in 1..shortest |-> [i \in DOMAIN pools |-> pools[i][n]]]

\* itertools.product(*pools): result = [[]]; for pool in pools: result = ...
RECURSIVE product(_)
product(pools) ==
    IF pools = <<>> THEN << <<>> >>
    ELSE ExtendEach(product(SubSeq(pools, 1, Len(pools) - 1)), pools[Len(pools)])

\* not (not all_options or not all(all_options))
Schedulable(options) ==
    options # <<>> /\ \A i \in DOMAIN options : options[i] # <<>>

HasOptions(pool) == pool # <<>>

\* planning over the selects that have options, the others left out
PlanSkippingEmpty(options) == product(SelectSeq(options, HasOptions))

\* process_section: zero combinations unless every select has options
Plan(options) == IF Schedulable(options) THEN product(options) ELSE <<>>

\* ------------------------------------------------------ download ledger
\* a path in the download directory: the name and what the path ends with
InProgressSuffixes == {".crdownload", ".tmp"}

File(n, s) == [name |-> n, suffix |-> s]

Files == { File("report", ".csv"), File("report(1)", ".csv"),
           File("report(1).csv", ".crdownload"), File("report(1).csv", ".tmp") }

\* the test without its second half
IsTempCrdownloadOnly(f) == f.suffix = ".crdownload"

\* f.endswith('.crdownload') or f.endswith('.tmp')
IsTemp(f) == f.suffix \in InProgressSuffixes

\* the name Chrome gives a finished download: the path without the marker
Finished(f) ==
    IF f.name = "report(1).csv" THEN File("report(1)", ".csv") ELSE f

NewFiles(current, initial) == current \ initial

TempFiles(new) == {f \in new : IsTemp(f)}

CompletedFiles(new) == {f \in new : ~IsTemp(f)}

\* what one poll of wait_for_download reports and records; {} when it
\* goes on to sleep
Reported(initial, current) ==
    LET new == NewFiles(current, initial)
    IN  IF new # {} /\ TempFiles(new) = {} THEN CompletedFiles(new) ELSE {}

\* the test with <= in the place of <
LoopTestInclusive(e) == e <= Timeout

\* while time.time() - start_time < timeout
LoopTest(e) == e < Timeout

\* ------------------------------------------------------------ the page
RawOption(v, t) == [value |-> v, text |-> t]

\* generated raw <option> entries: a placeholder without a value, and two
\* with a value, one of them with a blank before its label
RawOptions ==
    { RawOption("", <<"-">>), RawOption("opt1", <<" ", "a">>),
      RawOption("opt2", <<"a">>) }

\* the sections the planner is run on: every section of up to MaxControls
\* selects of up to MaxOpts raw entries each
GeneratedSections == SeqsUpTo(SeqsUpTo(RawOptions, MaxOpts), MaxControls) \ {<<>>}

\* the selects of the pages the driver is run on
SelectA ==
    << RawOption("", <<"-">>), RawOption("opt1", <<" ", "1">>),
       RawOption("opt2", <<"2", " ">>) >>

SelectB == << RawOption("x", <<"x">>), RawOption("y", <<"y">>), RawOption("z", <<"z">>) >>

SelectPlaceholder == << RawOption(NoneValue, <<"-">>), RawOption("", <<"-">>) >>

\* the sections of the pages the driver is run on: one of two selects with
\* 2 and 3 options (6 combinations), one of a single select (2), and one
\* whose first select offers only placeholders (not schedulable)
ExampleSection == <<SelectA, SelectB>>

SmallSection == <<SelectA>>

TripleSection == <<SelectA, SelectB, SelectA>>

EmptySection == <<SelectPlaceholder, SelectB>>

\* find_data_sections keeps only the sections with at least one <select>;
\* it may find none
Pages == { <<>>, <<ExampleSection>>, <<EmptySection, SmallSection>>,
           <<SmallSection, EmptySection>> }

\* ---------------------------------------------------------------- state
VARIABLES
    sections,              \* run: sections, each the raw options of its selects
    dir,                   \* the files in download_dir
    removals,              \* files deleted from download_dir so far
    pc,                    \* the statement the run is at
    sec_idx,               \* run: position of the for loop over sections
    total_downloads,       \* run: total_downloads
    all_options,           \* process_section: all_options
    combinations,          \* process_section: combinations
    combo_num,             \* process_section: combo_num
    successful_downloads,  \* process_section: successful_downloads
    attempted,             \* the combinations download_combination was called with
    result,                \* what download_combination returned
    failure,               \* the step of download_combination that failed
    failed,                \* calls of download_combination that returned False
    click_outcome,         \* what download_btn.click() did
    invocations,           \* invocations of the button tried (until the loop starts)
    ledger_before,         \* len(downloaded_files) when download_combination began
    dir_at_invoke,         \* download_dir when the button was invoked (until the loop starts)
    initial_files,         \* wait_for_download: initial_files
    current_files,         \* wait_for_download: current_files
    elapsed,               \* wait_for_download: time.time() - start_time
    checked_at,            \* elapsed when the loop test was last evaluated
    wait_result,           \* what wait_for_download returned
    detected,              \* calls of wait_for_download that returned True
    downloaded_files       \* self.downloaded_files

vars == << sections, dir, removals, pc, sec_idx, total_downloads, all_options,
           combinations, combo_num, successful_downloads, attempted, result,
           failure, failed, click_outcome, invocations, ledger_before, dir_at_invoke, initial_files,
           current_files, elapsed, checked_at, wait_result, detected,
           downloaded_files >>

envVars == << dir, removals >>

runVars == << sections, sec_idx, total_downloads >>

sectionVars == << all_options, combinations, combo_num, successful_downloads,
                  attempted >>

comboVars == << result, failure, failed, click_outcome, invocations,
               ledger_before, dir_at_invoke >>

waitVars == << initial_files, current_files, elapsed, checked_at, wait_result >>

ledgerVars == << detected, downloaded_files >>

\* __init__ and the locals before they are assigned
InitRest ==
    /\ removals = 0
    /\ pc = "run"
    /\ sec_idx = 0
    /\ total_downloads = 0
    /\ all_options = <<>>
    /\ combinations = <<>>
    /\ combo_num = 0
    /\ successful_downloads = 0
    /\ attempted = <<>>
    /\ result = "none"
    /\ failure = "none"
    /\ failed = 0
    /\ click_outcome = "none"
    /\ invocations = 0
    /\ ledger_before = 0
    /\ dir_at_invoke = {}
    /\ initial_files = {}
    /\ current_files = {}
    /\ elapsed = 0
    /\ checked_at = 0
    /\ wait_result = "none"
    /\ detected = 0
    /\ downloaded_files = <<>>

Init ==
    /\ sections \in Pages
    /\ dir \in {{}, {File("report", ".csv")}}
    /\ InitRest

\* ------------------------------------------------------------ the driver
\* entry of download_combination(section, combination, combo_num, total)
BeginCombination(n, combos, before, failures) ==
    /\ combo_num' = n
    /\ failed' = failures
    /\ attempted' = Append(before, combos[n])
    /\ result' = "none"
    /\ failure' = "none"
    /\ click_outcome' = "none"
    /\ invocations' = 0
    /\ ledger_before' = Len(downloaded_files)
    /\ dir_at_invoke' = {}
    /\ initial_files' = {}
    /\ current_files' = {}
    /\ elapsed' = 0
    /\ checked_at' = 0
    /\ wait_result' = "none"
    /\ pc' = "select"

\* the exception of the step named leaves process_section and ends the run
ReturnFalseAborts(step) ==
    /\ result' = "False"
    /\ failure' = step
    /\ failed' = failed + 1
    /\ pc' = "done"

\* download_combination returns False at the step named: the loop of
\* process_section goes on
ReturnFalse(step) ==
    /\ result' = "False"
    /\ failure' = step
    /\ failed' = failed + 1
    /\ pc' = "combo_done"

\* run: page load, section discovery
RunStart ==
    /\ pc = "run"
    /\ \E loaded \in BOOLEAN :
         IF loaded /\ sections # <<>>
         THEN /\ pc' = "process_section"
              /\ sec_idx' = 1
         ELSE /\ pc' = "done"
              /\ UNCHANGED sec_idx
    /\ total_downloads' = 0
    /\ UNCHANGED << sections, envVars, sectionVars, comboVars, waitVars, ledgerVars >>

\* process_section up to the first call of download_combination
ProcessSection ==
    /\ pc = "process_section"
    /\ \E raising \in SUBSET DOMAIN sections[sec_idx] :
         LET options == [i \in DOMAIN sections[sec_idx] |->
                            get_dropdown_options(sections[sec_idx][i], i \in raising)]
         IN  /\ all_options' = options
             /\ combinations' = Plan(options)
             /\ successful_downloads' = 0
             /\ IF Plan(options) # <<>>
                THEN BeginCombination(1, Plan(options), <<>>, 0)
                ELSE /\ attempted' = <<>>
                     /\ combo_num' = 0
                     /\ failed' = 0
                     /\ pc' = "section_done"
                     /\ UNCHANGED << result, failure, click_outcome, invocations,
                                     ledger_before, dir_at_invoke, waitVars >>
    /\ UNCHANGED << runVars, envVars, ledgerVars >>

\* select_dropdown_combination: any exception while selecting -> False
SelectCombination ==
    /\ pc = "select"
    /\ \E selected \in BOOLEAN :
         IF selected
         THEN /\ pc' = "locate"
              /\ UNCHANGED << result, failure, failed >>
         ELSE ReturnFalse("select")
    /\ UNCHANGED << runVars, envVars, sectionVars, click_outcome, invocations,
                    ledger_before, dir_at_invoke, waitVars, ledgerVars >>

\* find_download_button: the button, or None when no selector yields one
LocateButton ==
    /\ pc = "locate"
    /\ \E found \in BOOLEAN :
         IF found
         THEN /\ pc' = "click"
              /\ UNCHANGED << result, failure, failed >>
         ELSE ReturnFalse("locate")
    /\ UNCHANGED << runVars, envVars, sectionVars, click_outcome, invocations,
                    ledger_before, dir_at_invoke, waitVars, ledgerVars >>

\* no handler for the intercepted click: the outer except returns False
OnClickInterceptedUnhandled == "combo_done"

\* the statement run when download_btn.click() raises
\* ElementClickInterceptedException: the script-level click
OnClickIntercepted == "forced"

\* scroll to the button and download_btn.click()
ClickButton ==
    /\ pc = "click"
    /\ \E outcome \in {"scroll_raises", "clicked", "intercepted", "raises"} :
         /\ click_outcome' = outcome
         /\ CASE outcome = "scroll_raises" ->
                  /\ ReturnFalse("scroll")
                  /\ UNCHANGED << invocations, dir_at_invoke >>
              [] outcome = "clicked" ->
                  /\ invocations' = invocations + 1
                  /\ dir_at_invoke' = dir
                  /\ pc' = "snapshot"
                  /\ UNCHANGED << result, failure, failed >>
              [] outcome = "intercepted" ->
                  /\ invocations' = invocations + 1
                  /\ UNCHANGED dir_at_invoke
                  /\ IF OnClickIntercepted = "forced"
                     THEN /\ pc' = "forced"
                          /\ UNCHANGED << result, failure, failed >>
                     ELSE ReturnFalse("click")
              [] outcome = "raises" ->
                  /\ invocations' = invocations + 1
                  /\ UNCHANGED dir_at_invoke
                  /\ ReturnFalse("click")
    /\ UNCHANGED << runVars, envVars, sectionVars, ledger_before, waitVars,
                    ledgerVars >>

\* self.driver.execute_script("arguments[0].click();", download_btn); when
\* it raises, the outer except returns False
ForcedClick ==
    /\ pc = "forced"
    /\ invocations' = invocations + 1
    /\ \E clicked \in BOOLEAN :
         IF clicked
         THEN /\ dir_at_invoke' = dir
              /\ pc' = "snapshot"
              /\ UNCHANGED << result, failure, failed >>
         ELSE /\ ReturnFalse("forced")
              /\ UNCHANGED dir_at_invoke
    /\ UNCHANGED << runVars, envVars, sectionVars, click_outcome, ledger_before,
                    waitVars, ledgerVars >>

\* every file counts as new at every poll
SnapshotEmpty(atInvoke, atEntry) == {}

\* the listing wait_for_download compares later listings with
SnapshotOf(atInvoke, atEntry) == atEntry

\* wait_for_download: initial_files, start_time
Snapshot ==
    /\ pc = "snapshot"
    /\ initial_files' = SnapshotOf(dir_at_invoke, dir)
    /\ elapsed' = 0
    /\ pc' = "check"
    /\ UNCHANGED << runVars, envVars, sectionVars, comboVars, current_files,
                    checked_at, wait_result, ledgerVars >>

\* the while test; when it fails wait_for_download returns False
LoopCheck ==
    /\ pc = "check"
    /\ checked_at' = elapsed
    /\ IF LoopTest(elapsed)
       THEN /\ pc' = "list"
            /\ UNCHANGED wait_result
       ELSE /\ wait_result' = "False"
            /\ pc' = "pace"
    /\ dir_at_invoke' = {}
    /\ invocations' = 0
    /\ click_outcome' = "none"
    /\ UNCHANGED << runVars, envVars, sectionVars, result, failure, failed,
                    ledger_before, initial_files, current_files, elapsed,
                    ledgerVars >>

\* time passing between the while test and the glob of the same iteration
Lag ==
    /\ pc = "list"
    /\ elapsed - checked_at < MaxLag
    /\ elapsed' = elapsed + 1
    /\ UNCHANGED << runVars, envVars, sectionVars, comboVars, initial_files,
                    current_files, checked_at, wait_result, pc, ledgerVars >>

\* one poll: glob, new_files, temp_files, completed_files, extend, return True
ListFiles ==
    /\ pc = "list"
    /\ current_files' = dir
    /\ LET completed == Reported(initial_files, dir)
       IN  IF completed # {}
           THEN /\ \E order \in Orderings(completed) :
                     downloaded_files' = downloaded_files \o order
                /\ detected' = detected + 1
                /\ wait_result' = "True"
                /\ pc' = "pace"
           ELSE /\ pc' = "sleep"
                /\ UNCHANGED << wait_result, ledgerVars >>
    /\ UNCHANGED << runVars, envVars, sectionVars, comboVars, initial_files,
                    elapsed, checked_at >>

\* time.sleep(1)
Sleep ==
    /\ pc = "sleep"
    /\ \E d \in SleepInterval..(SleepInterval + MaxOversleep) : elapsed' = elapsed + d
    /\ current_files' = {}
    /\ pc' = "check"
    /\ UNCHANGED << runVars, envVars, sectionVars, comboVars, initial_files,
                    checked_at, wait_result, ledgerVars >>

\* what download_combination returns once wait_for_download has returned
AfterWait(waited) == "True"

\* the random delay, then return True
Pace ==
    /\ pc = "pace"
    /\ result' = AfterWait(wait_result)
    /\ pc' = "combo_done"
    /\ UNCHANGED << runVars, envVars, sectionVars, failure, failed, click_outcome,
                    invocations, ledger_before, dir_at_invoke, waitVars,
                    ledgerVars >>

\* the for loop of process_section: count the result, take the next one
NextCombination ==
    /\ pc = "combo_done"
    /\ successful_downloads' =
           successful_downloads + (IF result = "True" THEN 1 ELSE 0)
    /\ IF combo_num < Len(combinations)
       THEN BeginCombination(combo_num + 1, combinations, attempted, failed)
       ELSE /\ pc' = "section_done"
            /\ UNCHANGED << combo_num, attempted, comboVars, waitVars >>
    /\ UNCHANGED << runVars, envVars, all_options, combinations, ledgerVars >>

\* process_section returns; run adds the count and takes the next section
ReturnSection ==
    /\ pc = "section_done"
    /\ total_downloads' = total_downloads + successful_downloads
    /\ IF sec_idx < Len(sections)
       THEN /\ sec_idx' = sec_idx + 1
            /\ pc' = "process_section"
       ELSE /\ pc' = "report"
            /\ UNCHANGED sec_idx
    /\ UNCHANGED << sections, envVars, sectionVars, comboVars, waitVars, ledgerVars >>

\* the summary run prints: total_downloads and len(self.downloaded_files)
Report ==
    /\ pc = "report"
    /\ pc' = "done"
    /\ UNCHANGED << runVars, envVars, sectionVars, comboVars, waitVars, ledgerVars >>

\* ------------------------------------------------------- the environment
\* download_dir is read when the button is invoked (what is there before
\* the click), at the snapshot and at each glob of the loop.  A change
\* of the directory is observed by the next of these reads only, so the
\* changes are taken right before a read: at any other statement they
\* lead to the same listings.
Running == pc \in {"click", "snapshot", "list"}

progVars == << sections, pc, sec_idx, total_downloads, sectionVars, comboVars,
               waitVars, ledgerVars >>

\* the browser (or anything else) creates a file in download_dir
FileAppears ==
    /\ Running
    /\ Cardinality(dir) < MaxFiles
    /\ \E f \in Files \ dir : dir' = dir \cup {f}
    /\ UNCHANGED << removals, progVars >>

\* the browser finishes a download: the partial file gets its final name
FileCompletes ==
    /\ Running
    /\ \E f \in dir :
         /\ IsTemp(f)
         /\ Finished(f) \notin dir
         /\ dir' = (dir \ {f}) \cup {Finished(f)}
    /\ UNCHANGED << removals, progVars >>

\* somebody deletes a file from download_dir
FileRemoved ==
    /\ Running
    /\ removals < MaxRemovals
    /\ \E f \in dir : dir' = dir \ {f}
    /\ removals' = removals + 1
    /\ UNCHANGED progVars

Next ==
    \/ RunStart
    \/ ProcessSection
    \/ SelectCombination
    \/ LocateButton
    \/ ClickButton
    \/ ForcedClick
    \/ Snapshot
    \/ LoopCheck
    \/ Lag
    \/ ListFiles
    \/ Sleep
    \/ Pace
    \/ NextCombination
    \/ ReturnSection
    \/ Report
    \/ FileAppears
    \/ FileCompletes
    \/ FileRemoved

Spec == Init /\ [][Next]_vars

\* ------------------------------------------------- the planner on its own
\* process_section called on one section of generated selects
PlanInit ==
    /\ sections \in {<<s>> : s \in GeneratedSections \cup {ExampleSection, TripleSection}}
    /\ dir = {}
    /\ InitRest

PlanNext ==
    \/ RunStart
    \/ ProcessSection

PlanSpec == PlanInit /\ [][PlanNext]_vars


\* ================================================================ claims
\* ---------------------------------------------------------------- C1
C1_AllNonEmpty ==
    all_options # <<>> /\ \A i \in DOMAIN all_options : Len(all_options[i]) > 0

RECURSIVE C1_CountProduct(_)
C1_CountProduct(options) ==
    IF options = <<>> THEN 1 ELSE Len(Head(options)) * C1_CountProduct(Tail(options))

C1_Cartesian ==
    {c \in [DOMAIN all_options -> UNION {Range(all_options[i]) : i \in DOMAIN all_options}] :
        \A i \in DOMAIN all_options : c[i] \in Range(all_options[i])}

C1_Count == Len(combinations) = C1_CountProduct(all_options)

C1_OnePerControl ==
    \A n \in DOMAIN combinations :
        /\ Len(combinations[n]) = Len(all_options)
        /\ \A i \in DOMAIN all_options : combinations[n][i] \in Range(all_options[i])

C1_Covers == C1_Cartesian \subseteq Range(combinations)

C1_Unique ==
    \A m, n \in DOMAIN combinations : m # n => combinations[m] # combinations[n]

C1_NoRepeatedOption ==
    \A i \in DOMAIN all_options :
        \A a, b \in DOMAIN all_options[i] : a # b => all_options[i][a] # all_options[i][b]

\* C1 as stated: when every select of the section has options, the plan
\* has n1*...*nk combinations, one option per select in select order, no
\* two of them equal, and together they are the Cartesian product.
C1_AsStated ==
    C1_AllNonEmpty => C1_Count /\ C1_OnePerControl /\ C1_Unique /\ C1_Covers

\* C1 amended: when every select of the section has options, the plan has
\* n1*...*nk combinations, one option per select in select order, covering
\* the Cartesian product; no two combinations are equal exactly when no
\* select lists the same option (value and stripped label) twice.
C1_ProductPlanned ==
    C1_AllNonEmpty =>
        /\ C1_Count
        /\ C1_OnePerControl
        /\ C1_Covers
        /\ (C1_Unique <=> C1_NoRepeatedOption)

\* a section of two selects with two distinct options each has been planned
C1_Witness ==
    /\ C1_AllNonEmpty
    /\ Len(all_options) = 2
    /\ Len(combinations) = 4
    /\ C1_Unique

\* ---------------------------------------------------------------- C2
C2_AllNonEmpty ==
    all_options # <<>> /\ \A i \in DOMAIN all_options : Len(all_options[i]) > 0

\* how many combinations pass before select i moves to its next option
RECURSIVE C2_Weight(_)
C2_Weight(i) ==
    IF i >= Len(all_options) THEN 1 ELSE Len(all_options[i + 1]) * C2_Weight(i + 1)

C2_Digit(n, i) == (((n - 1) \div C2_Weight(i)) % Len(all_options[i])) + 1

C2_Opt(v, t) == [value |-> v, text |-> <<t>>]

C2_ExampleOptions ==
    << <<C2_Opt("opt1", "1"), C2_Opt("opt2", "2")>>,
       <<C2_Opt("x", "x"), C2_Opt("y", "y"), C2_Opt("z", "z")>> >>

C2_ExampleOrder ==
    << <<C2_Opt("opt1", "1"), C2_Opt("x", "x")>>,
       <<C2_Opt("opt1", "1"), C2_Opt("y", "y")>>,
       <<C2_Opt("opt1", "1"), C2_Opt("z", "z")>>,
       <<C2_Opt("opt2", "2"), C2_Opt("x", "x")>>,
       <<C2_Opt("opt2", "2"), C2_Opt("y", "y")>>,
       <<C2_Opt("opt2", "2"), C2_Opt("z", "z")>> >>

\* C2: the plan is in odometer order, the last select varying fastest: the
\* n-th combination is fixed by the option sequences alone (its i-th option
\* is the digit of n-1 at position i in the mixed radix of the option
\* counts), and A=[opt1,opt2], B=[x,y,z] are planned as (opt1,x), (opt1,y),
\* (opt1,z), (opt2,x), (opt2,y), (opt2,z).
C2_OdometerOrder ==
    /\ C2_AllNonEmpty =>
           \A n \in DOMAIN combinations : \A i \in DOMAIN all_options :
               /\ i \in DOMAIN combinations[n]
               /\ combinations[n][i] = all_options[i][C2_Digit(n, i)]
    /\ all_options = C2_ExampleOptions => combinations = C2_ExampleOrder

\* the section A=[opt1,opt2], B=[x,y,z] has been planned
C2_Witness == all_options = C2_ExampleOptions /\ combinations = C2_ExampleOrder


\* ---------------------------------------------------------------- C3
C3_SomeEmpty(options) == \E i \in DOMAIN options : options[i] = <<>>

C3_NoValue(raw) == \A j \in DOMAIN raw : raw[j].value \in {"", NoneValue}

\* C3: a section one of whose selects yields no options (none has a value,
\* or reading it failed) is planned with zero combinations: process_section
\* goes straight to its return with count 0, nothing is selected, clicked or
\* recorded, and run adds 0 and takes the next section.
C3_EmptySectionSkipped ==
    [][ /\ pc = "process_section" =>
              \A i \in DOMAIN sections[sec_idx] :
                  C3_NoValue(sections[sec_idx][i]) => all_options'[i] = <<>>
        /\ (pc = "process_section" /\ C3_SomeEmpty(all_options')) =>
              /\ pc' = "section_done"
              /\ combinations' = <<>>
              /\ attempted' = <<>>
              /\ successful_downloads' = 0
              /\ UNCHANGED << click_outcome, invocations, wait_result,
                              downloaded_files, detected >>
        /\ (pc = "section_done" /\ C3_SomeEmpty(all_options)) =>
              /\ total_downloads' = total_downloads
              /\ downloaded_files' = downloaded_files
              /\ IF sec_idx < Len(sections)
                 THEN pc' = "process_section" /\ sec_idx' = sec_idx + 1
                 ELSE pc' = "report"
      ]_vars

\* reading the only select of the first section failed, the section was
\* skipped and run is at the second section
C3_Witness ==
    /\ pc = "process_section"
    /\ sec_idx = 2
    /\ sections[1] = SmallSection
    /\ all_options = << <<>> >>
    /\ total_downloads = 0
    /\ downloaded_files = <<>>

\* ---------------------------------------------------------------- C4
InProgressMarker(f) == f.suffix = ".crdownload" \/ f.suffix = ".tmp"

\* what the current call of wait_for_download has added to the ledger
RecordedByPoll ==
    Range(SubSeq(downloaded_files, ledger_before + 1, Len(downloaded_files)))

\* a poll has listed the directory and either sleeps or has returned True
Polled == pc = "sleep" \/ (pc = "pace" /\ wait_result = "True")

C4_Diff(before, after) == {f \in after \ before : ~InProgressMarker(f)}

C5_Qualifying == {f \in current_files \ initial_files : ~InProgressMarker(f)}

C6_AsStated ==
    /\ (pc = "combo_done" /\ wait_result = "False") => result # "True"
    /\ pc = "report" =>
          /\ total_downloads = detected
          /\ total_downloads <= Len(downloaded_files)

\* ---------------------------------------------------------------- C7
InCombination ==
    {"select", "locate", "click", "forced", "snapshot", "check", "list", "sleep",
     "pace", "combo_done"}

\* the calls of download_combination of the section that have returned
C7_Returned ==
    IF pc \in InCombination \ {"combo_done"} THEN combo_num - 1
    ELSE IF pc = "combo_done" /\ result = "True" THEN combo_num - 1
    ELSE combo_num

\* C7: whatever fails while selecting, locating or clicking, the
\* combinations are attempted once each in planned order and the section (and
\* the run) ends only with the plan exhausted; a failed combination returns
\* False without a poll and with the ledger as it was, and is counted as
\* failed, not as successful.
C7_FailuresDoNotAbort ==
    /\ pc \in InCombination \cup {"section_done"} =>
          attempted = SubSeq(combinations, 1, combo_num)
    /\ pc = "section_done" => attempted = combinations
    /\ (pc \in {"report", "done"} /\ sec_idx > 0) =>
          attempted = combinations /\ sec_idx = Len(sections)
    /\ failure # "none" =>
          /\ result = "False"
          /\ wait_result = "none"
          /\ Len(downloaded_files) = ledger_before
    /\ sec_idx > 0 => successful_downloads + failed = C7_Returned

\* of six combinations one of the first three failed and the fourth is run
C7_Witness ==
    /\ Len(combinations) = 6
    /\ combo_num = 4
    /\ pc = "click"
    /\ failed = 1
    /\ successful_downloads = 2

\* ---------------------------------------------------------------- C8
\* C8 as stated: the snapshot is the directory as it was when the button was
\* invoked, so no file that appeared after the invocation is in it.
C8_AsStated ==
    (pc = "check" /\ invocations > 0) => initial_files \subseteq dir_at_invoke

\* ---------------------------------------------------------------- C9
C9_Entries ==
    /\ \A i \in DOMAIN downloaded_files : ~InProgressMarker(downloaded_files[i])
    /\ (pc = "pace" /\ wait_result = "True") => RecordedByPoll \subseteq current_files
    /\ removals = 0 =>
          /\ Range(downloaded_files) \subseteq dir
          /\ Cardinality(Range(downloaded_files)) = Len(downloaded_files)

\* C9: no step removes or changes an entry of the ledger; every entry is a
\* file without marker that a poll listed; and while no file has been removed
\* from the directory no file is recorded twice, so that the length reported
\* is the number of distinct files recorded.
C9_LedgerGrows ==
    [][ /\ Len(downloaded_files) <= Len(downloaded_files')
        /\ SubSeq(downloaded_files', 1, Len(downloaded_files)) = downloaded_files
        /\ C9_Entries'
      ]_vars

\* two files recorded by two polls with nothing removed
C9_Witness ==
    /\ Len(downloaded_files) = 2
    /\ detected = 2
    /\ removals = 0

\* ---------------------------------------------------------------- C10
\* C10: an intercepted click is followed by one script-level click and no
\* further invocation; when that succeeds the poll starts, when it fails
\* download_combination returns False with no poll and the ledger as it was,
\* and the combination is counted as failed.
C10_RetriedOnce ==
    /\ pc = "forced" => click_outcome = "intercepted" /\ invocations = 1
    /\ invocations <= 2
    /\ click_outcome = "intercepted" =>
          \/ pc = "forced"
          \/ /\ pc \in {"snapshot", "check"}
             /\ invocations = 2
             /\ failure = "none"
          \/ /\ pc \notin InCombination \ {"combo_done"}
             /\ failure = "forced"
             /\ invocations = 2
             /\ result = "False"
             /\ wait_result = "none"
             /\ Len(downloaded_files) = ledger_before
             /\ successful_downloads + failed = combo_num

\* the click was intercepted, the script-level click went through and the
\* poll is about to start
C10_Witness ==
    /\ click_outcome = "intercepted"
    /\ pc = "check"
    /\ invocations = 2

====
